---- MODULE Spec2Model ----
(***************************************************************************)
(* Model of the notebook plot_precision_recall: the precision-recall      *)
(* example for a binary and a multi-label classifier.                     *)
(*                                                                         *)
(* Four specifications share the module:                                   *)
(*   SpecPR   the binary cells (average precision, curve, title) on        *)
(*            bounded labels and scores, with the threshold sweep the      *)
(*            notebook's text describes;                                   *)
(*   SpecML   the multi-label score cell and micro-averaged plot cell on   *)
(*            a bounded indicator matrix and score matrix;                 *)
(*   SpecIso  the iso-f1 loop of the final plot cell, point by point;      *)
(*   Spec     the kernel: the namespace of one Python kernel under         *)
(*            arbitrary sequences of cell executions.                      *)
(* Numbers are exact rationals <<numerator, denominator>>; floating-point  *)
(* rounding of the library is not modelled.                                *)
(***************************************************************************)
EXTENDS Integers, Sequences, FiniteSets, TLC

\* ---------------------------------------------------------------- bounds
\* number of test items of the binary case
NItems == 3
\* number of distinct decision-function values of the binary case
ScoreLevels == 3
\* draws from the random stream after which the multi-label data cell is
\* not executed again before the stream is re-created
MaxDraws == 5
\* number of test items of the multi-label case
MItems == 1
\* number of distinct decision-function values of the multi-label case
MScoreLevels == 2

VARIABLES
    \* binary / multi-label data cells
    y_test, Y_test, y_score, average_precision, precision, recall,
    thresholds, title, printed, plotted, lines, labels, cell, truncating,
    \* the classifier threshold of the notebook's text
    thr, rose, fell,
    \* the kernel: namespace, outputs, position in the final plot cell,
    \* last error, and the record of which cells ran
    ns, out, running, fi, ci, l, legend, err, pos, fresh, first_run,
    \* the arrays of the iso-f1 loop, element by element
    f_index, pt, x, y, iso_line, annotations

dvars == <<y_test, Y_test, y_score, average_precision, precision, recall,
           thresholds, title, printed, plotted, lines, labels, cell,
           truncating>>
svars == <<thr, rose, fell>>
kvars == <<ns, out, running, fi, ci, l, legend, err, pos, fresh, first_run>>
ivars == <<f_index, pt, x, y, iso_line, annotations>>
vars == <<dvars, svars, kvars, ivars>>

\* a name that no cell has bound yet
Unbound == <<>>

\* ------------------------------------------------------------- rationals
RECURSIVE GCD(_, _)
GCD(a, b) == IF b = 0 THEN a ELSE GCD(b, a % b)

Abs(a) == IF a < 0 THEN -a ELSE a

\* a fraction in lowest terms with a positive denominator
NormBy(r, g) ==
    IF g = 0 THEN r
    ELSE IF r[2] < 0 THEN <<-(r[1] \div g), -(r[2] \div g)>>
    ELSE <<r[1] \div g, r[2] \div g>>
Norm(r) == NormBy(r, GCD(Abs(r[1]), Abs(r[2])))

\* the greatest common divisor, 1 for a pair of zeros
OneIfZero(g) == IF g = 0 THEN 1 ELSE g
Common(a, b) == OneIfZero(GCD(Abs(a), Abs(b)))

\* a + b over the denominators reduced by their common divisor g
RAddBy(a, b, g) ==
    Norm(<<a[1] * (b[2] \div g) + b[1] * (a[2] \div g), (a[2] \div g) * b[2]>>)
RAdd(a, b) == RAddBy(a, b, Common(a[2], b[2]))
RNeg(a) == <<-a[1], a[2]>>
RSub(a, b) == RAdd(a, RNeg(b))
\* a * b with the cross divisors g and h cancelled first
RMulBy(a, b, g, h) ==
    Norm(<<(a[1] \div g) * (b[1] \div h), (a[2] \div h) * (b[2] \div g)>>)
RMul(a, b) == RMulBy(a, b, Common(a[1], b[2]), Common(b[1], a[2]))
REq(a, b) == Norm(a) = Norm(b)
RLtBy(a, b, g) == a[1] * (b[2] \div g) < b[1] * (a[2] \div g)
RLt(a, b) == RLtBy(a, b, Common(a[2], b[2]))
RLe(a, b) == RLt(a, b) \/ REq(a, b)

RECURSIVE RSum(_, _)
\* the sum of the first k elements of a sequence of fractions
RSum(s, k) == IF k = 0 THEN <<0, 1>> ELSE RAdd(RSum(s, k - 1), s[k])

\* '{0:0.2f}'.format(r): hundredths, ties to even; -1 stands for 'nan'
\* n / d rounded to an integer, ties to even
RoundHalfEven(q, twice, d) ==
    IF twice > d \/ (twice = d /\ q % 2 = 1) THEN q + 1 ELSE q
Format2f(r) ==
    IF r[2] = 0 THEN -1
    ELSE RoundHalfEven((100 * r[1]) \div r[2], 2 * ((100 * r[1]) % r[2]), r[2])

\* ------------------------------------------ the notebook's definitions
\* items a classifier with threshold t returns (predicts positive)
ReturnedStrict(s, t) == {i \in DOMAIN s : s[i] > t}
ReturnedInverted(s, t) == {i \in DOMAIN s : s[i] <= t}
Returned(s, t) == {i \in DOMAIN s : s[i] >= t}

\* T_p: returned items that are truly positive
Tp(yt, s, t) == Cardinality({i \in Returned(s, t) : yt[i] = 1})
\* F_p: returned items that are not positive
Fp(yt, s, t) == Cardinality({i \in Returned(s, t) : yt[i] = 0})
\* F_n: positive items that are not returned
FnMut(yt, s, t) == Cardinality({i \in DOMAIN s \ Returned(s, t + 1) : yt[i] = 1})
Fn(yt, s, t) == Cardinality({i \in DOMAIN s \ Returned(s, t) : yt[i] = 1})

\* P = T_p / (T_p + F_p)
PFalseDiscovery(yt, s, t) == <<Fp(yt, s, t), Tp(yt, s, t) + Fp(yt, s, t)>>
P(yt, s, t) == <<Tp(yt, s, t), Tp(yt, s, t) + Fp(yt, s, t)>>
\* R = T_p / (T_p + F_n)
R(yt, s, t) == <<Tp(yt, s, t), Tp(yt, s, t) + Fn(yt, s, t)>>

\* AP = sum_n (R_n - R_{n-1}) P_n over operating points (R_n, P_n) listed
\* from the highest threshold to the lowest, with R_0 = 0
RECURSIVE AP(_, _, _)
AP(Rs, Ps, n) ==
    IF n = 0 THEN <<0, 1>>
    ELSE RAdd(AP(Rs, Ps, n - 1),
              RMul(RSub(Rs[n], IF n = 1 THEN <<0, 1>> ELSE Rs[n - 1]), Ps[n]))

\* ------------------------------------------------- the library's metrics
Range(s) == {s[i] : i \in DOMAIN s}
Reverse(s) == [k \in 1..Len(s) |-> s[Len(s) + 1 - k]]

RECURSIVE argsort_desc(_, _)
\* np.argsort(y_score, kind="mergesort")[::-1]: positions by decreasing
\* score, equal scores by decreasing position
argsort_desc(s, rem) ==
    IF rem = {} THEN <<>>
    ELSE LET m == CHOOSE i \in rem :
                     \A j \in rem : s[j] < s[i] \/ (s[j] = s[i] /\ j <= i)
         IN  <<m>> \o argsort_desc(s, rem \ {m})

RECURSIVE cumsum(_, _)
cumsum(s, k) == IF k = 0 THEN 0 ELSE cumsum(s, k - 1) + s[k]

\* s[idx]
Take(s, idx) == [k \in 1..Len(idx) |-> s[idx[k]]]

\* the last position of every run of equal values: np.where(np.diff(ys))
\* followed by the last position
distinct_value_indices(ys) ==
    SelectSeq([k \in 1..Len(ys) |-> k],
              LAMBDA k : k = Len(ys) \/ ys[k] /= ys[k + 1])

\* counts at the positions threshold_idxs of labels yt sorted with their
\* scores ys: tps = cumsum(yt)[threshold_idxs], fps = 1 + threshold_idxs - tps
\* (positions counted from 0 there, from 1 here)
clf_counts(yt, ys, threshold_idxs) ==
    [tps |-> [j \in 1..Len(threshold_idxs) |-> cumsum(yt, threshold_idxs[j])],
     fps |-> [j \in 1..Len(threshold_idxs) |->
                 threshold_idxs[j] - cumsum(yt, threshold_idxs[j])],
     thresholds |-> Take(ys, threshold_idxs)]

clf_sorted(y_true, y_sc, desc_score_indices) ==
    clf_counts(Take(y_true, desc_score_indices), Take(y_sc, desc_score_indices),
               distinct_value_indices(Take(y_sc, desc_score_indices)))

\* _binary_clf_curve: false and true positive counts per distinct threshold,
\* thresholds decreasing
binary_clf_curve(y_true, y_sc) ==
    clf_sorted(y_true, y_sc, argsort_desc(y_sc, 1..Len(y_sc)))

\* tps.searchsorted(tps[-1]): the first threshold that attains full recall
first_full_recall(tps) ==
    CHOOSE j \in 1..Len(tps) :
        /\ tps[j] >= tps[Len(tps)]
        /\ \A i \in 1..(j - 1) : tps[i] < tps[Len(tps)]

\* the curve of the counts c up to position last_ind, reversed and closed by
\* the point (recall 0, precision 1)
curve_upto(c, last_ind) ==
    [precision |->
        Reverse([j \in 1..last_ind |-> <<c.tps[j], c.tps[j] + c.fps[j]>>])
            \o <<(<<1, 1>>)>>,
     recall |->
        Reverse([j \in 1..last_ind |-> <<c.tps[j], c.tps[Len(c.tps)]>>])
            \o <<(<<0, 1>>)>>,
     thresholds |-> Reverse([j \in 1..last_ind |-> c.thresholds[j]])]

curve_of(c, trunc) ==
    curve_upto(c, IF trunc THEN first_full_recall(c.tps) ELSE Len(c.tps))

\* precision_recall_curve: precision and recall by increasing threshold,
\* closed by the point (recall 0, precision 1). A truncating release drops
\* the thresholds below the first one that attains full recall.
precision_recall_curve(y_true, y_sc, trunc) ==
    curve_of(binary_clf_curve(y_true, y_sc), trunc)

\* -np.sum(np.diff(recall) * np.array(precision)[:-1])
area_of(c) ==
    Norm(RNeg(RSum([j \in 1..(Len(c.recall) - 1) |->
                       RMul(RSub(c.recall[j + 1], c.recall[j]), c.precision[j])],
                   Len(c.recall) - 1)))

\* average_precision_score on a binary target
average_precision_score(y_true, y_sc, trunc) ==
    area_of(precision_recall_curve(y_true, y_sc, trunc))

\* ------------------------------------------------- the kernel's namespace
\* the names that one cell binds and another cell reads; a name bound and
\* read inside one cell only is not kept
Names == {"svm", "train_test_split", "np", "X", "y", "random_state",
          "X_train", "y_train", "y_test", "y_score", "average_precision",
          "plt", "precision", "recall", "n_classes", "Y_test"}

\* a value: its kind, the cell that bound it, and the position of the random
\* stream its data was drawn at
Val(k, c, sd) == [kind |-> k, by |-> c, seed |-> sd]
NoValue == Val("unbound", -1, 0)
EmptyNs == [n \in Names |-> NoValue]
Bound(space, n) == space[n].kind /= "unbound"

NoErr == <<>>

\* the kernel before any cell has run
KernelIdle ==
    /\ ns = EmptyNs
    /\ out = <<>>
    /\ running = "idle"
    /\ fi = 0
    /\ ci = 0
    /\ l = <<>>
    /\ legend = <<>>
    /\ err = NoErr
    /\ pos = 0
    /\ fresh = TRUE
    /\ first_run = <<>>

\* the iso-f1 loop before its first iteration
IsoIdle ==
    /\ f_index = 0
    /\ pt = 0
    /\ x = <<>>
    /\ y = <<>>
    /\ iso_line = <<>>
    /\ annotations = <<>>

\* --------------------------------------------------- the binary cells
\* labels of the test items: the two first classes, at least one positive
BinaryLabels == {yt \in [1..NItems -> {0, 1}] : \E i \in 1..NItems : yt[i] = 1}
\* decision_function values of the test items
BinaryScores == [1..NItems -> 1..ScoreLevels]
\* above every score: the classifier returns nothing
NoThreshold == ScoreLevels + 1

InitPR ==
    /\ y_test \in BinaryLabels
    /\ y_score \in BinaryScores
    /\ truncating \in BOOLEAN
    /\ average_precision = Unbound
    /\ precision = Unbound
    /\ recall = Unbound
    /\ thresholds = Unbound
    /\ title = Unbound
    /\ printed = Unbound
    /\ plotted = Unbound
    /\ Y_test = Unbound
    /\ lines = Unbound
    /\ labels = Unbound
    /\ cell = 7
    /\ thr = NoThreshold
    /\ rose = FALSE
    /\ fell = FALSE
    /\ KernelIdle
    /\ IsoIdle

\* cell "Compute the average precision score"
Cell7 ==
    /\ cell = 7
    /\ average_precision' = average_precision_score(y_test, y_score, truncating)
    /\ printed' = <<"Average precision-recall score: ",
                    Format2f(average_precision')>>
    /\ cell' = 9
    /\ UNCHANGED <<y_test, Y_test, y_score, precision, recall, thresholds,
                   title, plotted, lines, labels, truncating, svars, kvars, ivars>>

\* the unpacking with precision and recall exchanged
Cell9Swapped ==
    /\ cell = 9
    /\ LET c == precision_recall_curve(y_test, y_score, truncating)
       IN  /\ precision' = c.recall
           /\ recall' = c.precision
           /\ thresholds' = c.thresholds
    /\ plotted' = <<recall', precision'>>
    /\ title' = <<"2-class Precision-Recall curve: AP=",
                  Format2f(average_precision)>>
    /\ cell' = 0
    /\ UNCHANGED <<y_test, Y_test, y_score, average_precision, printed, lines,
                   labels, truncating, svars, kvars, ivars>>

\* cell "Plot the Precision-Recall curve"
Cell9 ==
    /\ cell = 9
    /\ LET c == precision_recall_curve(y_test, y_score, truncating)
       IN  /\ precision' = c.precision
           /\ recall' = c.recall
           /\ thresholds' = c.thresholds
    /\ plotted' = <<recall', precision'>>
    /\ title' = <<"2-class Precision-Recall curve: AP=",
                  Format2f(average_precision)>>
    /\ cell' = 0
    /\ UNCHANGED <<y_test, Y_test, y_score, average_precision, printed, lines,
                   labels, truncating, svars, kvars, ivars>>

\* lowering the threshold of the classifier to a lower score
LowerThreshold ==
    /\ \E t \in Range(y_score) :
          /\ t < thr
          /\ thr' = t
    /\ rose' = (rose \/ (/\ Tp(y_test, y_score, thr) + Fp(y_test, y_score, thr) > 0
                         /\ RLt(P(y_test, y_score, thr), P(y_test, y_score, thr'))))
    /\ fell' = (fell \/ (/\ Tp(y_test, y_score, thr) + Fp(y_test, y_score, thr) > 0
                         /\ RLt(P(y_test, y_score, thr'), P(y_test, y_score, thr))))
    /\ UNCHANGED <<dvars, kvars, ivars>>

NextPR == Cell7 \/ Cell9 \/ LowerThreshold

SpecPR == InitPR /\ [][NextPR]_vars

\* ------------------------------------------------ claims on the binary case
Positives(yt) == {i \in DOMAIN yt : yt[i] = 1}
\* the items a step from threshold hi down to threshold lo newly returns
Admitted(s, hi, lo) == Returned(s, lo) \ Returned(s, hi)

\* C2: once the curve cell has run, every operating point of the stored
\* curve is the point of one score used as threshold t, with precision
\* Tp/(Tp+Fp) and recall Tp/(Tp+Fn) counted over the items whose score is at
\* least t; a score has no operating point only when a truncating release
\* dropped it because a higher threshold already attains full recall.
C2_OperatingPoints ==
    cell = 0 =>
        /\ Len(precision) = Len(thresholds) + 1
        /\ Len(recall) = Len(thresholds) + 1
        /\ \A n \in 1..Len(thresholds) :
              LET t == thresholds[n]
              IN  /\ t \in Range(y_score)
                  /\ precision[n][2] > 0 /\ recall[n][2] > 0
                  /\ REq(precision[n], P(y_test, y_score, t))
                  /\ REq(recall[n], R(y_test, y_score, t))
        /\ \A t \in Range(y_score) :
              \/ t \in Range(thresholds)
              \/ /\ truncating
                 /\ \E u \in Range(y_score) :
                        u > t /\ Fn(y_test, y_score, u) = 0

C2_Witness ==
    /\ cell = 0
    /\ Len(thresholds) >= 2
    /\ \E n \in 1..Len(thresholds) : Fp(y_test, y_score, thresholds[n]) > 0
    /\ \E n \in 1..Len(thresholds) : Fn(y_test, y_score, thresholds[n]) > 0

\* C3: at every threshold of the sweep Tp + Fn is the number of truly
\* positive items.
C3_RecallDenominator ==
    Tp(y_test, y_score, thr) + Fn(y_test, y_score, thr)
        = Cardinality(Positives(y_test))

C3_Witness ==
    /\ thr < NoThreshold
    /\ Tp(y_test, y_score, thr) > 0
    /\ Fn(y_test, y_score, thr) > 0

\* C4: a step that lowers the threshold never decreases recall, and
\* increases it exactly when it admits a truly positive item.
C4_RecallMonotone ==
    [][thr' < thr =>
          /\ RLe(R(y_test, y_score, thr), R(y_test, y_score, thr'))
          /\ RLt(R(y_test, y_score, thr), R(y_test, y_score, thr'))
                <=> (Admitted(y_score, thr, thr') \cap Positives(y_test) /= {})]_vars

C4_Witness ==
    /\ thr < NoThreshold
    /\ Tp(y_test, y_score, thr) > 0
    /\ \E u \in Range(y_score) :
          /\ u > thr
          /\ Tp(y_test, y_score, u) = Tp(y_test, y_score, thr)
          /\ Fp(y_test, y_score, u) < Fp(y_test, y_score, thr)

\* C5: from a threshold that returns something, a step that admits only
\* true positives does not decrease precision and increases it if it was
\* below 1; a step that admits only false positives, with Tp > 0, decreases
\* precision.
C5_PrecisionSteps ==
    [][(thr' < thr /\ Tp(y_test, y_score, thr) + Fp(y_test, y_score, thr) > 0) =>
          LET adm == Admitted(y_score, thr, thr')
              before == P(y_test, y_score, thr)
              after == P(y_test, y_score, thr')
          IN  /\ (adm /= {} /\ adm \subseteq Positives(y_test)) =>
                    /\ RLe(before, after)
                    /\ RLt(before, <<1, 1>>) => RLt(before, after)
              /\ (adm /= {} /\ adm \cap Positives(y_test) = {}
                    /\ Tp(y_test, y_score, thr) > 0) =>
                    RLt(after, before)]_vars

\* one sweep in which a step raised precision and another lowered it
C5_Witness == rose /\ fell

\* C6: the average precision of Cell7 is the sum over the operating points
\* of the curve stored by Cell9, from the highest threshold to the lowest
\* with R_0 = 0, of (R_n - R_{n-1}) * P_n, and the title shows that value.
C6_AveragePrecision ==
    cell = 0 =>
        LET n == Len(thresholds)
            Rs == Reverse(SubSeq(recall, 1, n))
            Ps == Reverse(SubSeq(precision, 1, n))
        IN  /\ REq(average_precision, AP(Rs, Ps, n))
            /\ plotted = <<recall, precision>>
            /\ title = <<"2-class Precision-Recall curve: AP=",
                         Format2f(AP(Rs, Ps, n))>>

C6_Witness ==
    /\ cell = 0
    /\ Len(thresholds) >= 2
    /\ RLt(<<1, 2>>, average_precision)
    /\ RLt(average_precision, <<1, 1>>)

\* ------------------------------------------------ the multi-label cells
\* Y.shape[1] of label_binarize(y, classes=[0, 1, 2])
n_classes == 3
Classes == 0..(n_classes - 1)

\* M[:, i]
Column(M, i) == [r \in 1..Len(M) |-> M[r][i]]
\* M.ravel(): the elements row by row
ravel(M) == [k \in 1..(Len(M) * n_classes) |->
                M[((k - 1) \div n_classes) + 1][(k - 1) % n_classes]]

\* average_precision_score(Y, S, average="micro"): the binary score of the
\* ravelled matrices
average_precision_score_micro(Y, S, trunc) ==
    average_precision_score(ravel(Y), ravel(S), trunc)

\* label_binarize output for the test items: one class per row
IndicatorMatrices ==
    {Y \in [1..MItems -> [Classes -> {0, 1}]] :
        \A r \in 1..MItems : Cardinality({c \in Classes : Y[r][c] = 1}) = 1}
\* decision_function output of the one-vs-rest classifier
ScoreMatrices == [1..MItems -> [Classes -> 1..MScoreLevels]]

InitML ==
    /\ Y_test \in IndicatorMatrices
    /\ y_score \in ScoreMatrices
    /\ truncating \in BOOLEAN
    /\ y_test = Unbound
    /\ average_precision = Unbound
    /\ precision = Unbound
    /\ recall = Unbound
    /\ thresholds = Unbound
    /\ title = Unbound
    /\ printed = Unbound
    /\ plotted = Unbound
    /\ lines = Unbound
    /\ labels = Unbound
    /\ cell = 13
    /\ thr = NoThreshold
    /\ rose = FALSE
    /\ fell = FALSE
    /\ KernelIdle
    /\ IsoIdle

\* the per-class curves of the loop "for i in range(n_classes)"
ClassCurve(i) ==
    precision_recall_curve(Column(Y_test, i), Column(y_score, i), truncating)

\* the micro entry taken from the loop's last class
Cell13LastClass ==
    /\ cell = 13
    /\ LET micro == ClassCurve(n_classes - 1)
       IN  /\ precision' = [class |-> [i \in Classes |-> ClassCurve(i).precision],
                            micro |-> micro.precision]
           /\ recall' = [class |-> [i \in Classes |-> ClassCurve(i).recall],
                         micro |-> micro.recall]
           /\ thresholds' = micro.thresholds
    /\ average_precision' =
          [class |-> [i \in Classes |->
                         average_precision_score(Column(Y_test, i),
                                                 Column(y_score, i), truncating)],
           micro |-> average_precision_score_micro(Y_test, y_score, truncating)]
    /\ printed' = <<"Average precision score, micro-averaged over all classes: ",
                    Format2f(average_precision'.micro)>>
    /\ cell' = 15
    /\ UNCHANGED <<y_test, Y_test, y_score, title, plotted, lines, labels,
                   truncating, svars, kvars, ivars>>

\* cell "The average precision score in multi-label settings"
Cell13 ==
    /\ cell = 13
    /\ LET micro == precision_recall_curve(ravel(Y_test), ravel(y_score),
                                           truncating)
       IN  /\ precision' = [class |-> [i \in Classes |-> ClassCurve(i).precision],
                            micro |-> micro.precision]
           /\ recall' = [class |-> [i \in Classes |-> ClassCurve(i).recall],
                         micro |-> micro.recall]
           /\ thresholds' = micro.thresholds
    /\ average_precision' =
          [class |-> [i \in Classes |->
                         average_precision_score(Column(Y_test, i),
                                                 Column(y_score, i), truncating)],
           micro |-> average_precision_score_micro(Y_test, y_score, truncating)]
    /\ printed' = <<"Average precision score, micro-averaged over all classes: ",
                    Format2f(average_precision'.micro)>>
    /\ cell' = 15
    /\ UNCHANGED <<y_test, Y_test, y_score, title, plotted, lines, labels,
                   truncating, svars, kvars, ivars>>

\* cell "Plot the micro-averaged Precision-Recall curve"
Cell15 ==
    /\ cell = 15
    /\ plotted' = <<recall.micro, precision.micro>>
    /\ title' = <<"Average precision score, micro-averaged over all classes: AP=",
                  Format2f(average_precision.micro)>>
    /\ cell' = 0
    /\ UNCHANGED <<y_test, Y_test, y_score, average_precision, precision,
                   recall, thresholds, printed, lines, labels, truncating, svars, kvars, ivars>>

\* ------------------------------------------------ the final plot cell
\* np.linspace(start, stop, num): num evenly spaced values, both ends included
linspace(start, stop, num) ==
    [k \in 1..num |->
        RAdd(start, RMul(<<k - 1, num - 1>>, RSub(stop, start)))]

\* the default num of np.linspace
NumPoints == 50
\* the index (from 0) of the point whose ordinate places the annotation
AnnotateIndex == 45

\* f_scores = np.linspace(0.2, 0.8, num=4)
f_scores == linspace(<<2, 10>>, <<8, 10>>, 4)
\* cycle(['navy', 'turquoise', 'darkorange', 'cornflowerblue', 'teal'])
colors == <<"navy", "turquoise", "darkorange", "cornflowerblue", "teal">>

RDiv(a, b) == RMul(a, <<b[2], b[1]>>)

\* 2 * x - f_score, the divisor of the ordinate
IsoDivisor(f, xv) == RSub(RMul(<<2, 1>>, xv), f)

\* y = f_score * x / (2 * x + f_score)
iso_f1_plus(f, xs) ==
    [j \in 1..Len(xs) |->
        RDiv(RMul(f, xs[j]), RAdd(RMul(<<2, 1>>, xs[j]), f))]
\* y = f_score * x / (2 * x - f_score)
iso_f1(f, xs) ==
    [j \in 1..Len(xs) |-> RDiv(RMul(f, xs[j]), IsoDivisor(f, xs[j]))]

\* a[y >= 0]
Mask(a, ys) ==
    LET keep == SelectSeq([k \in 1..Len(ys) |-> k],
                          LAMBDA k : RLe(<<0, 1>>, ys[k]))
    IN  [j \in 1..Len(keep) |-> a[keep[j]]]

\* 'f1={0:0.1f}'.format(f): tenths, ties to even
Format1f(r) ==
    RoundHalfEven((10 * r[1]) \div r[2], 2 * ((10 * r[1]) % r[2]), r[2])

\* the Line2D that plt.plot returns
Line2D(xdata, ydata, color) == <<xdata, ydata, color>>
\* the legend texts
IsoLabel == <<"iso-f1 curves">>
MicroLabel(area) == <<"micro-average Precision-recall (area = ", area>>
ClassLabel(i, area) == <<"Precision-recall for class ", i, " (area = ", area>>
NextML == Cell13 \/ Cell15

SpecML == InitML /\ [][NextML]_vars

\* ------------------------------------------- claim on the multi-label case
\* the elements of the indicator matrix, each one binary prediction
Elements == (1..MItems) \X Classes
MicroTp(t) == Cardinality({e \in Elements :
                  Y_test[e[1]][e[2]] = 1 /\ y_score[e[1]][e[2]] >= t})
MicroFp(t) == Cardinality({e \in Elements :
                  Y_test[e[1]][e[2]] = 0 /\ y_score[e[1]][e[2]] >= t})
MicroFn(t) == Cardinality({e \in Elements :
                  Y_test[e[1]][e[2]] = 1 /\ y_score[e[1]][e[2]] < t})

IsoInit ==
    /\ IsoIdle
    /\ KernelIdle
    /\ y_test = Unbound
    /\ Y_test = Unbound
    /\ y_score = Unbound
    /\ average_precision = Unbound
    /\ precision = Unbound
    /\ recall = Unbound
    /\ thresholds = Unbound
    /\ title = Unbound
    /\ printed = Unbound
    /\ plotted = Unbound
    /\ lines = Unbound
    /\ labels = Unbound
    /\ cell = 17
    /\ truncating = FALSE
    /\ thr = NoThreshold
    /\ rose = FALSE
    /\ fell = FALSE

\* "for f_score in f_scores: x = np.linspace(0.01, 1)": the next f_score
IsoNext ==
    /\ f_index < Len(f_scores)
    /\ pt = 0
    /\ f_index' = f_index + 1
    /\ x' = linspace(<<1, 100>>, <<1, 1>>, NumPoints)
    /\ y' = <<>>
    /\ pt' = 1
    /\ UNCHANGED <<iso_line, annotations, dvars, svars, kvars>>

\* one element of "y = f_score * x / (2 * x - f_score)"
IsoPoint ==
    /\ pt >= 1
    /\ pt <= Len(x)
    /\ y' = Append(y, iso_f1(f_scores[f_index], <<x[pt]>>)[1])
    /\ pt' = pt + 1
    /\ UNCHANGED <<f_index, x, iso_line, annotations, dvars, svars, kvars>>

\* "l, = plt.plot(x[y >= 0], y[y >= 0], ...)" and "plt.annotate(...)"
IsoPlot ==
    /\ pt = Len(x) + 1
    /\ iso_line' = Line2D(Mask(x, y), Mask(y, y), "gray")
    /\ annotations' = Append(annotations,
                             <<"f1=", Format1f(f_scores[f_index]), <<9, 10>>,
                               RAdd(y[AnnotateIndex + 1], <<2, 100>>)>>)
    /\ pt' = 0
    /\ UNCHANGED <<f_index, x, y, dvars, svars, kvars>>

NextIso == IsoNext \/ IsoPoint \/ IsoPlot

SpecIso == IsoInit /\ [][NextIso]_vars

\* F1 = 2 P R / (P + R)
F1(prec, rec) == RDiv(RMul(<<2, 1>>, RMul(prec, rec)), RAdd(prec, rec))

\* C9: in the iso-f1 loop no divisor 2x - f is zero, every plotted point
\* (x, y) has F1 equal to the f_score of its curve, which is the value the
\* annotation shows, and the annotation's index lies within the points and
\* refers to a non-negative ordinate.
C9_IsoF1 ==
    /\ AnnotateIndex < NumPoints
    /\ \A j \in 1..Len(y) :
          /\ IsoDivisor(f_scores[f_index], x[j])[1] /= 0
          /\ y[j][2] /= 0
    /\ (f_index > 0 /\ pt = 0) =>
          /\ Len(y) = NumPoints
          /\ Len(iso_line[1]) = Len(iso_line[2])
          /\ Len(iso_line[1]) > 0
          /\ \A j \in 1..Len(iso_line[1]) :
                /\ RLe(<<0, 1>>, iso_line[2][j])
                /\ REq(F1(iso_line[2][j], iso_line[1][j]), f_scores[f_index])
          /\ \A j \in 1..NumPoints :
                RLe(<<0, 1>>, y[j]) =>
                    \E i \in 1..Len(iso_line[1]) :
                        iso_line[1][i] = x[j] /\ iso_line[2][i] = y[j]
          /\ Len(annotations) = f_index
          /\ annotations[f_index][2] = Format1f(f_scores[f_index])
          /\ REq(<<annotations[f_index][2], 10>>, f_scores[f_index])
          /\ RLe(<<0, 1>>, y[AnnotateIndex + 1])

\* a finished curve of which some points are masked and some are plotted
C9_Witness ==
    /\ f_index = Len(f_scores)
    /\ pt = 0
    /\ Len(iso_line[1]) < NumPoints
    /\ Len(iso_line[1]) > 0
    /\ Len(annotations) = Len(f_scores)

\* ---------------------------------------------------- the kernel's cells
\* the code cells in notebook order, by their index in the cell list
OrderPlotFirst == <<0, 2, 4, 5, 9, 7, 11, 13, 15, 17>>
Order == <<0, 2, 4, 5, 7, 9, 11, 13, 15, 17>>

BindAll(S, v) == [n \in S |-> v]
\* the text of a number formatted with '{0:0.2f}'
Shown(v) == <<"0.2f", v>>
\* d["micro"] and d[i] of a dict d
ItemMicro(d) == <<"micro", -1, d>>
ItemClass(d, i) == <<"class", i, d>>
\* the line of the iso-f1 curve of f_score f: plt.plot(x[y >= 0], y[y >= 0])
IsoHandle(f) == Line2D(<<"x[y >= 0]", f>>, <<"y[y >= 0]", f>>, "gray")

\* what the kernel holds when a top-to-bottom run has ended
Snapshot == <<ns, lines, labels, l, legend, out>>

\* cell c has ended, normally or by an exception
Completed(c) ==
    /\ pos' = IF pos < Len(Order) /\ Order[pos + 1] = c THEN pos + 1
              ELSE IF c = Order[1] THEN 1 ELSE 0
    /\ fresh' = (fresh /\ pos < Len(Order) /\ Order[pos + 1] = c)
    /\ first_run' = IF first_run = <<>> /\ fresh' /\ pos' = Len(Order)
                    THEN Snapshot' ELSE first_run

plotvars == <<running, fi, ci, l, legend, lines, labels>>
datavars == <<y_test, Y_test, y_score, average_precision, precision, recall,
              thresholds, title, printed, plotted, cell, truncating, svars,
              ivars>>

\* cell "%matplotlib inline"
Exec0 ==
    /\ running = "idle"
    /\ err' = NoErr
    /\ UNCHANGED <<ns, out, plotvars, datavars>>
    /\ Completed(0)

\* cell "from __future__ import print_function"
Exec2 ==
    /\ running = "idle"
    /\ err' = NoErr
    /\ UNCHANGED <<ns, out, plotvars, datavars>>
    /\ Completed(2)

\* the stream that the data cell keeps from an earlier execution
RandomStateKept(space) ==
    IF ~Bound(space, "random_state") THEN 0
    ELSE IF space["random_state"].seed <= MaxDraws - 4
    THEN space["random_state"].seed ELSE MaxDraws - 4
\* np.random.RandomState(0): position of the newly created stream
RandomState0(space) == 0

\* the bindings of the binary data cell; p is the position of the stream
\* at its creation: the noise is drawn at p, the split at p + 1, the fit at
\* p + 2
After4(space, p) ==
    BindAll({"svm", "train_test_split", "np"}, Val("import", 4, 0))
    @@ ("X" :> Val("features", 4, p))
    @@ ("y" :> Val("labels", 4, 0))
    @@ ("random_state" :> Val("rng", 4, p + 3))
    @@ ("X_train" :> Val("features", 4, p + 1))
    @@ BindAll({"y_train", "y_test"}, Val("labels", 4, p + 1))
    @@ ("y_score" :> Val("scores", 4, p + 2))
    @@ space

\* cell "Create simple data" (binary data, fit, decision_function)
Exec4 ==
    /\ running = "idle"
    /\ ns' = After4(ns, RandomState0(ns))
    /\ err' = NoErr
    /\ UNCHANGED <<out, plotvars, datavars>>
    /\ Completed(4)

\* cell "#note": displays y_train
Exec5 ==
    /\ running = "idle"
    /\ IF ~Bound(ns, "X_train")
       THEN err' = <<5, 181>> /\ out' = out
       ELSE IF ~Bound(ns, "y_train")
       THEN err' = <<5, 182>> /\ out' = out
       ELSE err' = NoErr /\ out' = <<"y_train", ns["y_train"]>>
    /\ UNCHANGED <<ns, plotvars, datavars>>
    /\ Completed(5)

\* y_test and y_score are the 1-d labels and scores of the binary case
BinaryInputs(space) ==
    /\ space["y_test"].kind = "labels"
    /\ space["y_score"].kind = "scores"

\* cell "Compute the average precision score"
Exec7 ==
    /\ running = "idle"
    /\ IF BinaryInputs(ns)
       THEN /\ ns' = ("average_precision" :>
                         Val("float", 7, ns["y_score"].seed)) @@ ns
            /\ out' = <<"Average precision-recall score: ",
                        Shown(ns'["average_precision"])>>
            /\ err' = NoErr
       ELSE /\ ns' = ns
            /\ out' = out
            /\ err' = <<7, 201>>
    /\ UNCHANGED <<plotvars, datavars>>
    /\ Completed(7)

\* cell "Plot the Precision-Recall curve"
Exec9 ==
    /\ running = "idle"
    /\ LET ns1 == ("plt" :> Val("import", 9, 0)) @@ ns
           ns2 == BindAll({"precision", "recall"},
                          Val("array", 9, ns1["y_score"].seed)) @@ ns1
       IN  IF ~BinaryInputs(ns1)
           THEN /\ ns' = ns1
                /\ out' = out
                /\ err' = <<9, 225>>
           ELSE IF ns2["average_precision"].kind /= "float"
           THEN /\ ns' = ns2
                /\ out' = out
                /\ err' = <<9, 236>>
           ELSE /\ ns' = ns2
                /\ out' = <<"2-class Precision-Recall curve: AP=",
                            Shown(ns2["average_precision"]),
                            Line2D(ns2["recall"], ns2["precision"], "b")>>
                /\ err' = NoErr
    /\ UNCHANGED <<plotvars, datavars>>
    /\ Completed(9)

\* cell "Create multi-label data, fit, and predict". The split draws once
\* from the stream; the one-vs-rest fit works on copies of it.
Exec11 ==
    /\ running = "idle"
    /\ LET p == ns["random_state"].seed
           ns1 == ("n_classes" :> Val("int", 11, 0)) @@ ns
           ok == /\ ns["y"].kind = "labels"
                 /\ ns["X"].kind = "features"
                 /\ ns["random_state"].kind = "rng"
                 /\ Bound(ns, "train_test_split")
                 /\ Bound(ns, "svm")
       IN  /\ ok => p < MaxDraws
           /\ IF ok
              THEN /\ ns' = ("X_train" :> Val("features", 11, p))
                            @@ ("Y_test" :> Val("indicator", 11, p))
                            @@ ("random_state" :> Val("rng", 4, p + 1))
                            @@ ("y_score" :> Val("score_matrix", 11, p))
                            @@ ns1
                   /\ err' = NoErr
              ELSE IF ns["y"].kind /= "labels"
              THEN /\ ns' = ns
                   /\ err' = <<11, 264>>
              ELSE /\ ns' = ns1
                   /\ err' = <<11, 268>>
    /\ UNCHANGED <<out, plotvars, datavars>>
    /\ Completed(11)

\* cell "The average precision score in multi-label settings"
Exec13 ==
    /\ running = "idle"
    /\ LET ns1 == BindAll({"precision", "recall", "average_precision"},
                          Val("dict_empty", 13, 0)) @@ ns
           sd == ns1["y_score"].seed
       IN  IF ns1["n_classes"].kind /= "int"
           THEN /\ ns' = ns1
                /\ out' = out
                /\ err' = <<13, 302>>
           ELSE IF ~(/\ ns1["Y_test"].kind = "indicator"
                     /\ ns1["y_score"].kind = "score_matrix")
           THEN /\ ns' = ns1
                /\ out' = out
                /\ err' = <<13, 303>>
           ELSE /\ ns' = BindAll({"precision", "recall", "average_precision"},
                                 Val("dict", 13, sd)) @@ ns1
                /\ out' =
                      <<"Average precision score, micro-averaged over all classes: ",
                        Shown(ItemMicro(ns'["average_precision"]))>>
                /\ err' = NoErr
    /\ UNCHANGED <<plotvars, datavars>>
    /\ Completed(13)

\* cell "Plot the micro-averaged Precision-Recall curve"
Exec15 ==
    /\ running = "idle"
    /\ IF ~Bound(ns, "plt")
       THEN err' = <<15, 332>> /\ out' = out
       ELSE IF ns["recall"].kind /= "dict" \/ ns["precision"].kind /= "dict"
       THEN err' = <<15, 333>> /\ out' = out
       ELSE IF ns["average_precision"].kind /= "dict"
       THEN err' = <<15, 342>> /\ out' = out
       ELSE /\ err' = NoErr
            /\ out' =
                  <<"Average precision score, micro-averaged over all classes: AP=",
                    Shown(ItemMicro(ns["average_precision"])),
                    Line2D(ItemMicro(ns["recall"]), ItemMicro(ns["precision"]),
                           "b")>>
    /\ UNCHANGED <<ns, plotvars, datavars>>
    /\ Completed(15)

\* final plot cell, up to "labels = []"
Start17 ==
    /\ running = "idle"
    /\ IF ~Bound(ns, "plt") \/ ~Bound(ns, "np")
       THEN /\ err' = IF ~Bound(ns, "plt") THEN <<17, 367>> ELSE <<17, 368>>
            /\ UNCHANGED <<ns, out, plotvars, datavars>>
            /\ Completed(17)
       ELSE /\ lines' = <<>>
            /\ labels' = <<>>
            /\ running' = "iso"
            /\ fi' = 0
            /\ fresh' = (fresh /\ pos < Len(Order) /\ Order[pos + 1] = 17)
            /\ UNCHANGED <<ns, out, ci, l, legend, err, pos, first_run,
                           datavars>>

\* one iteration of "for f_score in f_scores"
IsoIter ==
    /\ running = "iso"
    /\ fi < Len(f_scores)
    /\ l' = IsoHandle(f_scores[fi + 1])
    /\ fi' = fi + 1
    /\ ns' = ("y" :> Val("iso", 17, 0)) @@ ns
    /\ UNCHANGED <<out, running, ci, legend, lines, labels, err, pos, fresh,
                   first_run, datavars>>

\* the two appends placed inside the loop: one entry per iso-f1 curve
AppendIsoInLoop ==
    /\ running = "iso"
    /\ fi = Len(f_scores)
    /\ lines' = lines \o [j \in 1..Len(f_scores) |-> IsoHandle(f_scores[j])]
    /\ labels' = labels \o [j \in 1..Len(f_scores) |-> IsoLabel]
    /\ running' = "micro"
    /\ UNCHANGED <<ns, out, fi, ci, l, legend, err, pos, fresh, first_run,
                   datavars>>

\* "lines.append(l)" and "labels.append('iso-f1 curves')" after the loop
AppendIso ==
    /\ running = "iso"
    /\ fi = Len(f_scores)
    /\ lines' = Append(lines, l)
    /\ labels' = Append(labels, IsoLabel)
    /\ running' = "micro"
    /\ UNCHANGED <<ns, out, fi, ci, l, legend, err, pos, fresh, first_run,
                   datavars>>

\* the micro-average line and its legend entry
PlotMicro ==
    /\ running = "micro"
    /\ IF ns["recall"].kind /= "dict" \/ ns["precision"].kind /= "dict"
       THEN /\ err' = <<17, 379>>
            /\ running' = "idle"
            /\ UNCHANGED <<ns, out, fi, ci, l, legend, lines, labels, datavars>>
            /\ Completed(17)
       ELSE /\ l' = Line2D(ItemMicro(ns["recall"]), ItemMicro(ns["precision"]),
                           "gold")
            /\ lines' = Append(lines, l')
            /\ IF ns["average_precision"].kind /= "dict"
               THEN /\ err' = <<17, 381>>
                    /\ running' = "idle"
                    /\ UNCHANGED <<ns, out, fi, ci, legend, labels, datavars>>
                    /\ Completed(17)
               ELSE /\ labels' = Append(labels,
                          MicroLabel(Shown(ItemMicro(ns["average_precision"]))))
                    /\ running' = "classes"
                    /\ ci' = 0
                    /\ UNCHANGED <<ns, out, fi, legend, err, pos, fresh,
                                   first_run, datavars>>

\* one iteration of "for i, color in zip(range(n_classes), colors)"
ClassIter ==
    /\ running = "classes"
    /\ ci < n_classes
    /\ l' = Line2D(ItemClass(ns["recall"], ci), ItemClass(ns["precision"], ci),
                   colors[(ci % Len(colors)) + 1])
    /\ lines' = Append(lines, l')
    /\ labels' = Append(labels,
                        ClassLabel(ci, Shown(ItemClass(ns["average_precision"], ci))))
    /\ ci' = ci + 1
    /\ UNCHANGED <<ns, out, running, fi, legend, err, pos, fresh, first_run,
                   datavars>>

\* the end of the final plot cell: axes, title, legend, show
Finish17 ==
    /\ running = "classes"
    /\ ci = n_classes
    /\ legend' = <<lines, labels>>
    /\ out' = <<"Extension of Precision-Recall curve to multi-class", legend'>>
    /\ running' = "idle"
    /\ err' = NoErr
    /\ UNCHANGED <<ns, fi, ci, l, lines, labels, datavars>>
    /\ Completed(17)

Init ==
    /\ KernelIdle
    /\ IsoIdle
    /\ y_test = Unbound
    /\ Y_test = Unbound
    /\ y_score = Unbound
    /\ average_precision = Unbound
    /\ precision = Unbound
    /\ recall = Unbound
    /\ thresholds = Unbound
    /\ title = Unbound
    /\ printed = Unbound
    /\ plotted = Unbound
    /\ lines = Unbound
    /\ labels = Unbound
    /\ cell = -1
    /\ truncating = FALSE
    /\ thr = NoThreshold
    /\ rose = FALSE
    /\ fell = FALSE

Next ==
    \/ Exec0 \/ Exec2 \/ Exec4 \/ Exec5 \/ Exec7 \/ Exec9 \/ Exec11 \/ Exec13
    \/ Exec15 \/ Start17 \/ IsoIter \/ AppendIso \/ PlotMicro \/ ClassIter
    \/ Finish17

Spec == Init /\ [][Next]_vars

\* ------------------------------------------------- claims on the kernel
\* the names a cell reads without binding them first, with the kind of
\* value the cell's statements need
Reads(c) ==
    CASE c = 5 -> {<<"X_train", "features">>, <<"y_train", "labels">>}
      [] c = 7 -> {<<"y_test", "labels">>, <<"y_score", "scores">>}
      [] c = 9 -> {<<"y_test", "labels">>, <<"y_score", "scores">>,
                   <<"average_precision", "float">>}
      [] c = 11 -> {<<"y", "labels">>, <<"X", "features">>,
                    <<"random_state", "rng">>, <<"train_test_split", "import">>,
                    <<"svm", "import">>}
      [] c = 13 -> {<<"n_classes", "int">>, <<"Y_test", "indicator">>,
                    <<"y_score", "score_matrix">>}
      [] c = 15 -> {<<"plt", "import">>, <<"recall", "dict">>,
                    <<"precision", "dict">>, <<"average_precision", "dict">>}
      [] c = 17 -> {<<"plt", "import">>, <<"np", "import">>,
                    <<"recall", "dict">>, <<"precision", "dict">>,
                    <<"average_precision", "dict">>, <<"n_classes", "int">>}
      [] OTHER -> {}

\* the cell whose statements bind a name with a kind
Writers(n, kd) ==
    CASE kd = "import" -> IF n = "plt" THEN {9} ELSE {4}
      [] kd \in {"labels", "scores", "rng"} -> {4}
      [] kd = "features" -> IF n = "X_train" THEN {4, 11} ELSE {4}
      [] kd = "float" -> {7}
      [] kd = "array" -> {9}
      [] kd \in {"int", "indicator", "score_matrix"} -> {11}
      [] kd = "dict" -> {13}
      [] kd = "iso" -> {17}
      [] OTHER -> {}

BinaryCells == {4, 7, 9}
MultiLabelCells == {11, 13, 15, 17}
PositionOf(c) == CHOOSE j \in 1..Len(Order) : Order[j] = c

\* C1: in a run from a fresh kernel that executes the code cells once each
\* from top to bottom, no cell raises, the next cell finds every name it
\* reads bound by an earlier cell with the kind it needs, every binary cell
\* comes before every multi-label cell (the binary figure is on display when
\* the multi-label data cell ends), and the run ends with the final plot
\* cell and its legend.
C1_TopToBottom ==
    fresh =>
        /\ err = NoErr
        /\ pos < Len(Order) =>
              \A r \in Reads(Order[pos + 1]) :
                  /\ ns[r[1]].kind = r[2]
                  /\ \E j \in 1..pos : Order[j] = ns[r[1]].by
        /\ \A b \in BinaryCells : \A m \in MultiLabelCells :
              PositionOf(b) < PositionOf(m)
        /\ (pos > 0 /\ Order[pos] = 11) =>
              out = <<"2-class Precision-Recall curve: AP=",
                      Shown(ns["average_precision"]),
                      Line2D(ns["recall"], ns["precision"], "b")>>
        /\ pos = Len(Order) =>
              /\ Order[pos] = 17
              /\ legend /= <<>>
              /\ out = <<"Extension of Precision-Recall curve to multi-class",
                         legend>>

C1_Witness ==
    /\ fresh
    /\ pos = Len(Order)
    /\ running = "idle"
    /\ ns["y"].kind = "iso"

\* C8: while the final plot cell runs, lines and labels have equal length
\* after every pair of appends; when plt.legend is called they hold
\* n_classes + 2 entries: the last iso-f1 line (f1 = 0.8) with 'iso-f1
\* curves', the micro-average line with the micro-average text, then for
\* each class in order its line with its text.
C8_LegendPaired ==
    /\ running /= "idle" => Len(lines) = Len(labels)
    /\ (running = "classes" /\ ci = n_classes) =>
          /\ Len(lines) = n_classes + 2
          /\ Len(labels) = n_classes + 2
          /\ REq(f_scores[Len(f_scores)], <<8, 10>>)
          /\ lines[1] = IsoHandle(f_scores[Len(f_scores)])
          /\ labels[1] = IsoLabel
          /\ lines[2] = Line2D(ItemMicro(ns["recall"]),
                               ItemMicro(ns["precision"]), "gold")
          /\ labels[2] = MicroLabel(Shown(ItemMicro(ns["average_precision"])))
          /\ \A i \in Classes :
                /\ lines[i + 3][1] = ItemClass(ns["recall"], i)
                /\ lines[i + 3][2] = ItemClass(ns["precision"], i)
                /\ labels[i + 3] =
                      ClassLabel(i, Shown(ItemClass(ns["average_precision"], i)))
    /\ legend /= <<>> =>
          /\ Len(legend[1]) = n_classes + 2
          /\ Len(legend[2]) = n_classes + 2

C8_Witness ==
    /\ running = "classes"
    /\ ci = n_classes
    /\ Len(lines) = n_classes + 2
    /\ ~fresh

\* C10: under any sequence of cell executions a cell ends without an
\* exception only if each name it reads was last bound by a cell that binds
\* it with the kind the cell needs; the multi-label data cell raises when y
\* was last bound by the final plot cell, and the binary plot cell raises
\* when average_precision was last bound by the multi-label score cell; and
\* whenever the code cells have just been executed from top to bottom, the
\* kernel is in the state the first top-to-bottom run ended in.
C10_Rebinding ==
    [][/\ \A c \in {5, 7, 9, 11, 13, 15} :
             (/\ running = "idle"
              /\ pos' = IF pos < Len(Order) /\ Order[pos + 1] = c THEN pos + 1
                        ELSE IF c = Order[1] THEN 1 ELSE 0
              /\ c = 5 => Exec5
              /\ c = 7 => Exec7
              /\ c = 9 => Exec9
              /\ c = 11 => Exec11
              /\ c = 13 => Exec13
              /\ c = 15 => Exec15
              /\ err' = NoErr)
                => \A r \in Reads(c) : ns[r[1]].by \in Writers(r[1], r[2])
       /\ Finish17 => \A r \in Reads(17) : ns[r[1]].by \in Writers(r[1], r[2])
       /\ (Exec11 /\ ns["y"].by = 17) => err' = <<11, 264>>
       /\ (Exec9 /\ ns["average_precision"].by = 13) => err' /= NoErr
       /\ (pos' = Len(Order) /\ pos /= Len(Order) /\ first_run' /= <<>>) =>
             /\ err' = NoErr
             /\ Snapshot' = first_run']_vars

\* a second top-to-bottom run has ended, after the first one
C10_Witness ==
    /\ pos = Len(Order)
    /\ ~fresh
    /\ first_run /= <<>>
    /\ Snapshot = first_run
    /\ err = NoErr

====
